---- MODULE Spec2Model ----
(***************************************************************************)
(* Model of src/app.py: the SF crime dashboard.                            *)
(*                                                                         *)
(* One run of the Streamlit script is: load_incidents() (a paginated       *)
(* fetch loop followed by normalisation), st.stop() when the result is     *)
(* empty, then the sidebar widgets, the filter mask, the summary metrics   *)
(* and the four tabs.  The fetch loop is modelled one request per step;    *)
(* the rest of load_incidents is one step, and the script body after       *)
(* load_incidents is one step taking the widget values as inputs.          *)
(*                                                                         *)
(* Optional values (pandas NaN / NaT / a key missing from the JSON object) *)
(* are sequences of length 0 (NA) or 1 (<<v>>).                            *)
(***************************************************************************)
EXTENDS Integers, Sequences, FiniteSets

VARIABLES
    source,              \* the remote table, as the pages its offsets fall in
    pc,                  \* position of the script
    offset,              \* load_incidents: offset
    all_chunks,          \* load_incidents: all_chunks
    requested,           \* the $offset of every requests.get issued, in order
    messages,            \* st.error / st.warning / st.success calls of this run
    df,                  \* module-level df = load_incidents()
    year_range,          \* sidebar slider
    selected_nbhds,      \* sidebar multiselect
    selected_categories, \* sidebar multiselect
    selected_weekdays,   \* sidebar multiselect
    hour_range,          \* sidebar slider
    df_filt,             \* df[mask].copy()
    metrics,             \* the three st.metric values
    panels,              \* the aggregations computed by the tabs, by name
    forecast             \* tab 3: ts_city_full, the guard and the fit

vars == <<source, pc, offset, all_chunks, requested, messages, df, year_range,
          selected_nbhds, selected_categories, selected_weekdays, hour_range,
          df_filt, metrics, panels, forecast>>

-----------------------------------------------------------------------------
(* Program constants *)

LIMIT_PER_CHUNK == 50000
MAX_TOTAL_ROWS == 250000
ScopeFirstYear == 2018
ScopeLastYear == 2025
TopN == 10
DefaultCategoryCount == 10
MinForecastPoints == 24
ForecastSteps == 6

weekday_order ==
    <<"Monday", "Tuesday", "Wednesday", "Thursday", "Friday", "Saturday", "Sunday">>

(* Bounds of the model *)

\* the remote table holds at most this many pages of LIMIT_PER_CHUNK rows
MaxSourcePages == 6

-----------------------------------------------------------------------------
(* Optional values and sequences *)

NA == <<>>

Some(v) == <<v>>

isna(v) == v = NA

Range(s) == {s[i] : i \in 1..Len(s)}

RECURSIVE Flatten(_)
Flatten(ss) == IF ss = <<>> THEN <<>> ELSE Head(ss) \o Flatten(Tail(ss))

RECURSIVE SumSeq(_)
SumSeq(s) == IF s = <<>> THEN 0 ELSE Head(s) + SumSeq(Tail(s))

Max(a, b) == IF a >= b THEN a ELSE b

\* The elements of the finite set S of integers, in increasing order.
RECURSIVE SortedInts(_)
SortedInts(S) ==
    IF S = {} THEN <<>>
    ELSE LET lo == CHOOSE x \in S : \A y \in S : x <= y
         IN <<lo>> \o SortedInts(S \ {lo})

-----------------------------------------------------------------------------
(* Timestamps.  The text of a date is the tuple <<y, m, d, h>> of its      *)
(* fields; a parsed pandas Timestamp is a record.                          *)

IsLeap(y) == ((y % 4) = 0 /\ (y % 100) # 0) \/ (y % 400) = 0

DaysInMonth(y, m) ==
    IF m = 2 THEN (IF IsLeap(y) THEN 29 ELSE 28)
    ELSE IF m \in {4, 6, 9, 11} THEN 30 ELSE 31

ValidText(t) ==
    /\ Len(t) = 4
    /\ t[2] \in 1..12
    /\ t[3] \in 1..DaysInMonth(t[1], t[2])
    /\ t[4] \in 0..23

Timestamp(y, m, d, h) == [year |-> y, month |-> m, day |-> d, hour |-> h]

\* pd.to_datetime(column, errors="coerce") on one value
to_datetime(v) ==
    IF isna(v) THEN NA
    ELSE IF ValidText(v[1]) THEN Some(Timestamp(v[1][1], v[1][2], v[1][3], v[1][4]))
    ELSE NA

\* pd.to_numeric(column, errors="coerce") on one value
to_numeric(v) ==
    IF isna(v) THEN NA
    ELSE IF v[1].numeric THEN Some(v[1].val)
    ELSE NA

\* Days since 1970-01-01 of a civil date
DayNumber(ts) ==
    LET y   == IF ts.month <= 2 THEN ts.year - 1 ELSE ts.year
        era == y \div 400
        yoe == y - era * 400
        mp  == (ts.month + 9) % 12
        doy == ((153 * mp + 2) \div 5) + ts.day - 1
        doe == yoe * 365 + (yoe \div 4) - (yoe \div 100) + doy
    IN era * 146097 + doe - 719468

\* Hours since the epoch: the order of Timestamps
Ordinal(ts) == DayNumber(ts) * 24 + ts.hour

\* MonthStart without the truncation to the month
MonthStart_KeepsDay(ts) == ts

\* .dt.to_period("M").dt.to_timestamp()
MonthStart(ts) == Timestamp(ts.year, ts.month, 1, 0)

\* ts + pd.offsets.MonthBegin(k) for a ts that is a month start
AddMonths(ts, k) ==
    LET n == ts.year * 12 + (ts.month - 1) + k
    IN Timestamp(n \div 12, (n % 12) + 1, 1, 0)

-----------------------------------------------------------------------------
(* The remote source: the pages it may answer a request with.  Every page   *)
(* names each of the seven projected fields in at least one row, so every  *)
(* column exists once the pages are concatenated.                          *)

Raw(d, dt, n, c, w, la, lo) ==
    [incident_date |-> d, incident_datetime |-> dt, analysis_neighborhood |-> n,
     incident_category |-> c, incident_day_of_week |-> w,
     latitude |-> la, longitude |-> lo]

Num(n) == Some([numeric |-> TRUE, val |-> n])

NotNum == Some([numeric |-> FALSE, val |-> 0])

\* Every category the sample source uses, in lexicographic order
CategoryNames ==
    <<"Arson", "Assault", "Burglary", "Disorderly Conduct", "Drug Offense",
      "Fraud", "Larceny Theft", "Malicious Mischief", "Motor Vehicle Theft",
      "Robbery", "Vandalism">>

\* Row i (0-based) of a page holding one incident per month from 2018-01 on
BulkRow(i) ==
    Raw(Some(<<2018 + (i \div 12), (i % 12) + 1, 1 + (i % 3), 0>>),
        Some(<<2018 + (i \div 12), (i % 12) + 1, 1 + (i % 3), (i * 7) % 24>>),
        Some(IF (i % 2) = 0 THEN "Mission" ELSE "Tenderloin"),
        Some(CategoryNames[(i % Len(CategoryNames)) + 1]),
        Some(weekday_order[(i % 7) + 1]),
        Num(37), Num(122))

\* 2018-01 .. 2018-12, then two rows the normalisation must cope with
Page2018 ==
    [i \in 1..12 |-> BulkRow(i - 1)] \o
    <<Raw(Some(<<2018, 3, 9, 0>>), NA, Some("Mission"), Some("Larceny Theft"),
          Some("Friday"), Num(37), Num(122)),
      Raw(Some(<<2017, 12, 31, 0>>), Some(<<2017, 12, 31, 23>>), Some("Mission"),
          Some("Assault"), Some("Sunday"), Num(37), Num(122))>>

\* 2019-01 .. 2019-12, the example rows of the specification, and rows with
\* a field missing or unparseable
Page2019 ==
    [i \in 1..12 |-> BulkRow(i + 11)] \o
    <<Raw(Some(<<2019, 12, 6, 0>>), Some(<<2019, 12, 6, 14>>), Some("Mission"),
          Some("Larceny Theft"), Some("Friday"), Num(37), Num(122)),
      Raw(Some(<<2019, 12, 6, 0>>), Some(<<2019, 12, 6, 2>>), Some("Mission"),
          Some("Assault"), Some("Friday"), NotNum, NA),
      Raw(NA, Some(<<2019, 5, 5, 5>>), Some("Mission"), Some("Assault"),
          Some("Sunday"), Num(37), Num(122)),
      Raw(Some(<<2019, 2, 30, 0>>), Some(<<2019, 2, 28, 14>>), Some("Tenderloin"),
          Some("Assault"), Some("Thursday"), Num(37), Num(122)),
      Raw(Some(<<2019, 6, 1, 0>>), Some(<<2019, 6, 1, 14>>), NA,
          Some("Assault"), Some("Saturday"), Num(37), Num(122)),
      Raw(Some(<<2019, 6, 2, 0>>), Some(<<2019, 6, 2, 14>>), Some("Tenderloin"),
          NA, Some("Sunday"), Num(37), Num(122)),
      Raw(Some(<<2019, 7, 4, 0>>), Some(<<2019, 7, 4, 24>>), Some("Tenderloin"),
          Some("Larceny Theft"), NA, Num(37), Num(122)),
      Raw(Some(<<2026, 1, 1, 0>>), Some(<<2026, 1, 1, 0>>), Some("Tenderloin"),
          Some("Larceny Theft"), Some("Thursday"), Num(37), Num(122))>>

\* Every row of this page is dropped by the normalisation
PageUnusable ==
    <<Raw(Some(<<2017, 6, 1, 0>>), Some(<<2017, 6, 1, 9>>), Some("Mission"),
          Some("Assault"), Some("Thursday"), Num(37), Num(122)),
      Raw(NA, NA, Some("Mission"), NA, Some("Friday"), NA, NA)>>

\* The order in which the remote table holds its pages, repeated as needed
SourceOrders ==
    {<<Page2018, Page2019, PageUnusable>>, <<PageUnusable, Page2019>>}

\* The remote tables: n pages in one of the orders
Sources ==
    {[i \in 1..n |-> order[((i - 1) % Len(order)) + 1]] :
        n \in 0..MaxSourcePages, order \in SourceOrders}

\* r.json() for $offset = off, $limit = LIMIT_PER_CHUNK: the rows of that page,
\* or the empty array past the end of the table
Response(table, off) ==
    LET page == (off \div LIMIT_PER_CHUNK) + 1
    IN IF page <= Len(table) THEN table[page] ELSE <<>>

-----------------------------------------------------------------------------
(* load_incidents: normalisation of the concatenated pages                 *)

\* rename + the four type conversions
Convert(raw) ==
    [date              |-> to_datetime(raw.incident_date),
     incident_datetime |-> to_datetime(raw.incident_datetime),
     neighborhood      |-> raw.analysis_neighborhood,
     category          |-> raw.incident_category,
     weekday           |-> raw.incident_day_of_week,
     latitude          |-> to_numeric(raw.latitude),
     longitude         |-> to_numeric(raw.longitude)]

\* HasEssentials with "category" left out of the subset
HasEssentials_WithoutCategory(r) == ~isna(r.date) /\ ~isna(r.neighborhood)

\* the row test of df.dropna(subset=["date", "neighborhood", "category"])
HasEssentials(r) ==
    ~isna(r.date) /\ ~isna(r.neighborhood) /\ ~isna(r.category)

\* the three derived columns
Derive(r) ==
    [date              |-> r.date,
     incident_datetime |-> r.incident_datetime,
     neighborhood      |-> r.neighborhood,
     category          |-> r.category,
     weekday           |-> r.weekday,
     latitude          |-> r.latitude,
     longitude         |-> r.longitude,
     year              |-> r.date[1].year,
     month             |-> MonthStart(r.date[1]),
     hour              |-> IF isna(r.incident_datetime) THEN NA
                           ELSE Some(r.incident_datetime[1].hour)]

\* the row test of the project-scope filter
InScope(r) == r.year >= ScopeFirstYear /\ r.year <= ScopeLastYear

MapSeq(s, Op(_)) == [i \in 1..Len(s) |-> Op(s[i])]

Normalize(rows) ==
    LET converted == MapSeq(rows, Convert)
        kept      == SelectSeq(converted, HasEssentials)
        derived   == MapSeq(kept, Derive)
    IN SelectSeq(derived, InScope)

-----------------------------------------------------------------------------
(* State after construction: the script is about to call load_incidents.   *)

NoRange == <<0, 0>>

NoMetrics == [total |-> 0, avg_num |-> 0, avg_den |-> 1, nbhds_in_view |-> 0]

NoPanels == [monthly |-> NA, top_nbh |-> NA, top_cat |-> NA,
             heat |-> NA, hourly |-> NA, wk |-> NA]

NoForecast == [ts_city_full |-> <<>>, guard_passed |-> FALSE,
               fit_called |-> FALSE, fit |-> "none", forecast_index |-> <<>>]

Init ==
    /\ source \in Sources
    /\ pc = "fetch"
    /\ offset = 0
    /\ all_chunks = <<>>
    /\ requested = <<>>
    /\ messages = {}
    /\ df = <<>>
    /\ year_range = NoRange
    /\ selected_nbhds = {}
    /\ selected_categories = {}
    /\ selected_weekdays = {}
    /\ hour_range = NoRange
    /\ df_filt = <<>>
    /\ metrics = NoMetrics
    /\ panels = NoPanels
    /\ forecast = NoForecast

ViewUnchanged ==
    UNCHANGED <<year_range, selected_nbhds, selected_categories,
                selected_weekdays, hour_range, df_filt, metrics, panels, forecast>>

-----------------------------------------------------------------------------
(* load_incidents: the fetch loop, one request per step                    *)

\* WhileCondition allowing one more turn of the loop
WhileCondition_OffByOne == offset <= MAX_TOTAL_ROWS

WhileCondition == offset < MAX_TOTAL_ROWS

\* requests.get succeeds with a non-empty page: append, advance
FetchPage ==
    /\ pc = "fetch"
    /\ WhileCondition
    /\ LET chunk == Response(source, offset)
       IN /\ chunk # <<>>
          /\ requested' = Append(requested, offset)
          /\ all_chunks' = Append(all_chunks, chunk)
          /\ offset' = offset + LIMIT_PER_CHUNK
    /\ pc' = "fetch"
    /\ UNCHANGED <<source, messages, df>>
    /\ ViewUnchanged

\* requests.get succeeds with an empty array: break
FetchEmpty ==
    /\ pc = "fetch"
    /\ WhileCondition
    /\ Response(source, offset) = <<>>
    /\ requested' = Append(requested, offset)
    /\ pc' = "after_loop"
    /\ UNCHANGED <<source, offset, all_chunks, messages, df>>
    /\ ViewUnchanged

\* FetchRequestException with the failed request tried again instead of
\* ending the loop
FetchRequestException_Retries ==
    /\ pc = "fetch"
    /\ offset < MAX_TOTAL_ROWS
    /\ requested' = Append(requested, offset)
    /\ messages' = messages \cup {"error: API request failed"}
    /\ pc' = "fetch"
    /\ UNCHANGED <<source, offset, all_chunks, df>>
    /\ ViewUnchanged

\* requests.get or raise_for_status raises RequestException: st.error, break
FetchRequestException ==
    /\ pc = "fetch"
    /\ WhileCondition
    /\ requested' = Append(requested, offset)
    /\ messages' = messages \cup {"error: API request failed"}
    /\ pc' = "after_loop"
    /\ UNCHANGED <<source, offset, all_chunks, df>>
    /\ ViewUnchanged

\* r.json() or pd.DataFrame raises anything else: st.error, break
FetchOtherException ==
    /\ pc = "fetch"
    /\ WhileCondition
    /\ requested' = Append(requested, offset)
    /\ messages' = messages \cup {"error: unexpected error"}
    /\ pc' = "after_loop"
    /\ UNCHANGED <<source, offset, all_chunks, df>>
    /\ ViewUnchanged

\* the while condition is false: the loop ends
WhileExit ==
    /\ pc = "fetch"
    /\ ~WhileCondition
    /\ pc' = "after_loop"
    /\ UNCHANGED <<source, offset, all_chunks, requested, messages, df>>
    /\ ViewUnchanged

\* the value load_incidents returns once the loop is over
LoadResult(chunks) ==
    IF chunks = <<>> THEN <<>> ELSE Normalize(Flatten(chunks))

\* after the loop: the empty frame, or concat + normalisation; df = the result
ReturnFromLoad ==
    /\ pc = "after_loop"
    /\ df' = LoadResult(all_chunks)
    /\ messages' = messages \cup
         (IF all_chunks = <<>> THEN {"warning"}
          ELSE {"success"})
    /\ pc' = "loaded"
    /\ UNCHANGED <<source, offset, all_chunks, requested>>
    /\ ViewUnchanged

\* if df.empty: st.stop()
Stop ==
    /\ pc = "loaded"
    /\ df = <<>>
    /\ pc' = "stopped"
    /\ UNCHANGED <<source, offset, all_chunks, requested, messages, df>>
    /\ ViewUnchanged

-----------------------------------------------------------------------------
(* The script after load_incidents: widgets, filter, metrics, tabs         *)

\* isin with an empty selection read as "no filter"
isin_EmptyMeansAll(v, selection) ==
    selection = {} \/ (~isna(v) /\ v[1] \in selection)

\* between with a missing value passing the range test
between_MissingPasses(v, lo, hi) == isna(v) \/ (lo <= v[1] /\ v[1] <= hi)

\* between with exclusive bounds
between_Exclusive(v, lo, hi) == ~isna(v) /\ lo < v[1] /\ v[1] < hi

\* Series.isin(selection) on one value
isin(v, selection) == ~isna(v) /\ v[1] \in selection

\* Series.between(lo, hi, inclusive="both") on one value
between(v, lo, hi) == ~isna(v) /\ lo <= v[1] /\ v[1] <= hi

Column(rows, name) == [i \in 1..Len(rows) |-> rows[i][name]]

\* the distinct present values of a column
Unique(column) == {v[1] : v \in Range(column) \ {NA}}

Years(frame) == {frame[i].year : i \in 1..Len(frame)}

min_year(frame) == CHOOSE y \in Years(frame) : \A z \in Years(frame) : y <= z

max_year(frame) == CHOOSE y \in Years(frame) : \A z \in Years(frame) : y >= z

\* the year slider: any lo <= hi between the first and the last observed year
YearRanges(frame) ==
    {yr \in (min_year(frame)..max_year(frame)) \X (min_year(frame)..max_year(frame)) :
        yr[1] <= yr[2]}

\* neighborhoods = sorted(df["neighborhood"].unique()), as a set
neighborhoods(frame) == Unique(Column(frame, "neighborhood"))

\* categories = sorted(df["category"].unique())
categories(frame) ==
    LET Observed(c) == c \in Unique(Column(frame, "category"))
    IN SelectSeq(CategoryNames, Observed)

\* default=categories[:10]
DefaultCategories(frame) ==
    LET cats == categories(frame)
    IN {cats[i] : i \in 1..(IF Len(cats) < DefaultCategoryCount THEN Len(cats)
                            ELSE DefaultCategoryCount)}

\* the selections of the three multiselects that are explored
NeighborhoodSelections(frame) == SUBSET neighborhoods(frame)

CategorySelections(frame) ==
    {{}, Range(categories(frame)), DefaultCategories(frame),
     Range(categories(frame)) \cap {"Larceny Theft"}}

WeekdaySelections == {{}, Range(weekday_order), {"Friday", "Sunday"}}

\* the positions of the hour slider (0..23, lo <= hi) that are explored
HourRanges == {hr \in {0, 14, 23} \X {0, 14, 23} : hr[1] <= hr[2]}

\* one row of mask
Mask(r, yr, nbhds, cats, wdays, hr) ==
    /\ r.year >= yr[1]
    /\ r.year <= yr[2]
    /\ isin(r.neighborhood, nbhds)
    /\ isin(r.category, cats)
    /\ isin(r.weekday, wdays)
    /\ between(r.hour, hr[1], hr[2])

\* df[mask].copy()
Filter(frame, yr, nbhds, cats, wdays, hr) ==
    LET Keep(r) == Mask(r, yr, nbhds, cats, wdays, hr)
    IN SelectSeq(frame, Keep)

Count(column, v) == Cardinality({i \in 1..Len(column) : column[i] = v})

\* the set S of Timestamps in chronological order
SortedTimestamps(S) ==
    LET ords == SortedInts({Ordinal(x) : x \in S})
    IN [i \in 1..Len(ords) |-> CHOOSE x \in S : Ordinal(x) = ords[i]]

\* frame.groupby("month").size(): one entry per month, in key order
GroupSizeByMonth(frame) ==
    LET months == Column(frame, "month")
        keys   == SortedTimestamps(Range(months))
    IN [i \in 1..Len(keys) |-> [month |-> keys[i], incidents |-> Count(months, keys[i])]]

\* the distinct present values of a column, in order of first appearance
RECURSIVE FirstSeen(_, _)
FirstSeen(column, seen) ==
    IF column = <<>> THEN <<>>
    ELSE IF isna(Head(column)) \/ Head(column)[1] \in seen
         THEN FirstSeen(Tail(column), seen)
    ELSE <<Head(column)[1]>> \o FirstSeen(Tail(column), seen \cup {Head(column)[1]})

\* keys by decreasing count, equal counts in the order given
RECURSIVE ByCountDescending(_, _)
ByCountDescending(keys, count) ==
    IF keys = <<>> THEN <<>>
    ELSE LET i == CHOOSE i \in 1..Len(keys) :
                    /\ \A j \in 1..Len(keys) : count[keys[j]] <= count[keys[i]]
                    /\ \A j \in 1..(i - 1) : count[keys[j]] < count[keys[i]]
         IN <<keys[i]>> \o
            ByCountDescending(SubSeq(keys, 1, i - 1) \o SubSeq(keys, i + 1, Len(keys)),
                              count)

\* Series.value_counts(): missing values left out, largest count first
value_counts(column) ==
    LET keys  == FirstSeen(column, {})
        count == [k \in Range(keys) |-> Count(column, Some(k))]
        order == ByCountDescending(keys, count)
    IN [i \in 1..Len(order) |-> [value |-> order[i], incidents |-> count[order[i]]]]

\* .head(n)
head(s, n) == SubSeq(s, 1, IF Len(s) < n THEN Len(s) ELSE n)

\* TopCounts without the sort by count: the first values seen
TopCounts_FirstSeen(frame, name) ==
    LET column == Column(frame, name)
        keys   == FirstSeen(column, {})
    IN head([i \in 1..Len(keys) |->
                [value |-> keys[i], incidents |-> Count(column, Some(keys[i]))]],
            TopN)

\* df_filt[name].value_counts().head(10)
TopCounts(frame, name) == head(value_counts(Column(frame, name)), TopN)

\* df_filt["hour"].value_counts().sort_index()
Hourly(frame) ==
    LET hours == Column(frame, "hour")
        keys  == SortedInts(Unique(hours))
    IN [i \in 1..Len(keys) |-> [hour |-> keys[i], incidents |-> Count(hours, Some(keys[i]))]]

\* df_filt["weekday"].value_counts().reindex(weekday_order): a weekday that
\* does not occur gets a missing count
WeekdayCounts(frame) ==
    LET days == Column(frame, "weekday")
    IN [i \in 1..Len(weekday_order) |->
          [weekday   |-> weekday_order[i],
           incidents |-> IF Count(days, Some(weekday_order[i])) = 0 THEN NA
                         ELSE Some(Count(days, Some(weekday_order[i])))]]

Reverse(s) == [i \in 1..Len(s) |-> s[Len(s) + 1 - i]]

\* the hours of one weekday's groups, ascending, as heat rows
HeatRows(frame, day) ==
    LET hours == SortedInts({frame[i].hour[1] : i \in
                     {j \in 1..Len(frame) : frame[j].weekday = Some(day)
                                            /\ ~isna(frame[j].hour)}})
    IN [i \in 1..Len(hours) |->
          [weekday |-> day, hour |-> hours[i],
           incidents |-> Cardinality({j \in 1..Len(frame) :
                             frame[j].weekday = Some(day) /\ frame[j].hour = Some(hours[i])})]]

\* groupby(["weekday", "hour"]).size(), weekday made categorical over
\* weekday_order, sorted by weekday descending and hour ascending
Heat(frame) ==
    LET days == Reverse(weekday_order)
    IN Flatten([i \in 1..Len(days) |-> HeatRows(frame, days[i])])

\* span_days without the + 1
span_days_WithoutLastDay(frame) ==
    LET ords == {Ordinal(frame[i].date[1]) : i \in 1..Len(frame)}
        hi   == CHOOSE x \in ords : \A y \in ords : x >= y
        lo   == CHOOSE x \in ords : \A y \in ords : x <= y
    IN (hi - lo) \div 24

\* (df_filt["date"].max() - df_filt["date"].min()).days + 1
span_days(frame) ==
    LET ords == {Ordinal(frame[i].date[1]) : i \in 1..Len(frame)}
        hi   == CHOOSE x \in ords : \A y \in ords : x >= y
        lo   == CHOOSE x \in ords : \A y \in ords : x <= y
    IN ((hi - lo) \div 24) + 1

\* the three st.metric values; the average is the fraction avg_num / avg_den
Metrics(frame) ==
    [total   |-> Len(frame),
     avg_num |-> IF Len(frame) > 0 THEN Len(frame) ELSE 0,
     avg_den |-> IF Len(frame) > 0 THEN Max(span_days(frame), 1) ELSE 1,
     nbhds_in_view |-> Cardinality(Unique(Column(frame, "neighborhood")))]

\* the guard every chart of tabs 1 and 2 sits behind
HasRows(frame) == Len(frame) > 0

\* tabs 1 and 2: each aggregation is computed only when df_filt has rows
Panels(frame) ==
    IF HasRows(frame)
    THEN [monthly |-> Some(GroupSizeByMonth(frame)),
          top_nbh |-> Some(TopCounts(frame, "neighborhood")),
          top_cat |-> Some(TopCounts(frame, "category")),
          heat    |-> Some(Heat(frame)),
          hourly  |-> Some(Hourly(frame)),
          wk      |-> Some(WeekdayCounts(frame))]
    ELSE [monthly |-> NA, top_nbh |-> NA, top_cat |-> NA,
          heat |-> NA, hourly |-> NA, wk |-> NA]

\* tab 3: the series the forecast is fitted on
ts_city_full(frame) == GroupSizeByMonth(frame)

\* EnoughHistory with a series of exactly 24 points refused
EnoughHistory_OffByOne(ts) == ~(Len(ts) <= MinForecastPoints)

\* the else branch of len(ts_city_full) < 24
EnoughHistory(ts) == ~(Len(ts) < MinForecastPoints)

\* tab 3 on the series ts, for a fit that ends as `outcome`
Forecast(ts, outcome) ==
       [ts_city_full   |-> ts,
        guard_passed   |-> EnoughHistory(ts),
        fit_called     |-> EnoughHistory(ts),
        fit            |-> outcome,
        forecast_index |-> IF outcome = "ok"
                           THEN [k \in 1..ForecastSteps |->
                                   AddMonths(ts[Len(ts)].month, k)]
                           ELSE <<>>]

\* what fit_forecast may return: results, or None after an exception
FitOutcomes(ts) ==
    IF EnoughHistory(ts) THEN {"ok", "error"} ELSE {"none"}

\* Render with tab 3 fitted on the filtered subset instead of df
Render_ForecastFromFiltered ==
    /\ pc = "loaded"
    /\ df # <<>>
    /\ \E yr \in YearRanges(df), nbhds \in NeighborhoodSelections(df),
          cats \in CategorySelections(df), wdays \in WeekdaySelections,
          hr \in HourRanges :
        /\ year_range' = yr
        /\ selected_nbhds' = nbhds
        /\ selected_categories' = cats
        /\ selected_weekdays' = wdays
        /\ hour_range' = hr
        /\ df_filt' = Filter(df, yr, nbhds, cats, wdays, hr)
        /\ metrics' = Metrics(df_filt')
        /\ panels' = Panels(df_filt')
    /\ \E outcome \in FitOutcomes(ts_city_full(df_filt')) :
          forecast' = Forecast(ts_city_full(df_filt'), outcome)
    /\ pc' = "rendered"
    /\ UNCHANGED <<source, offset, all_chunks, requested, messages, df>>

\* one run of the script body below st.stop(), for the widget values chosen
Render ==
    /\ pc = "loaded"
    /\ df # <<>>
    /\ \E outcome \in FitOutcomes(ts_city_full(df)) :
          forecast' = Forecast(ts_city_full(df), outcome)
    /\ \E yr \in YearRanges(df), nbhds \in NeighborhoodSelections(df),
          cats \in CategorySelections(df), wdays \in WeekdaySelections,
          hr \in HourRanges :
        /\ year_range' = yr
        /\ selected_nbhds' = nbhds
        /\ selected_categories' = cats
        /\ selected_weekdays' = wdays
        /\ hour_range' = hr
        /\ df_filt' = Filter(df, yr, nbhds, cats, wdays, hr)
        /\ metrics' = Metrics(df_filt')
        /\ panels' = Panels(df_filt')
    /\ pc' = "rendered"
    /\ UNCHANGED <<source, offset, all_chunks, requested, messages, df>>

\* a widget changes: the script runs again, load_incidents answers from its cache
Rerun ==
    /\ pc = "rendered"
    /\ pc' = "loaded"
    /\ year_range' = NoRange
    /\ selected_nbhds' = {}
    /\ selected_categories' = {}
    /\ selected_weekdays' = {}
    /\ hour_range' = NoRange
    /\ df_filt' = <<>>
    /\ metrics' = NoMetrics
    /\ panels' = NoPanels
    /\ forecast' = NoForecast
    /\ UNCHANGED <<source, offset, all_chunks, requested, messages, df>>

Next ==
    \/ FetchPage
    \/ FetchEmpty
    \/ FetchRequestException
    \/ FetchOtherException
    \/ WhileExit
    \/ ReturnFromLoad
    \/ Stop
    \/ Render
    \/ Rerun

Spec == Init /\ [][Next]_vars

\* one turn of the while loop, however it ends
FetchStep ==
    \/ FetchPage
    \/ FetchEmpty
    \/ FetchRequestException
    \/ FetchOtherException
    \/ WhileExit

\* The loop runs on one thread and every request either answers, raises or
\* times out (timeout=60), so a turn of the loop that can be taken is taken.
FairSpec == Spec /\ WF_vars(FetchStep)

-----------------------------------------------------------------------------
(* Properties                                                              *)

Errors == {"error: API request failed", "error: unexpected error"}

\* load_incidents has returned
Loaded == pc \in {"loaded", "stopped", "rendered"}

\* C1: when at least one page was fetched and a later request then fails,
\* load_incidents returns the empty result, not the pages already fetched.
C1_PartialPagesDiscarded ==
    (Loaded /\ all_chunks # <<>> /\ messages \cap Errors # {}) => df = <<>>

\* the raw rows load_incidents concatenated
RawRows == Flatten(all_chunks)

\* C2: every record of the collection load_incidents returns has a date, a
\* neighborhood and a category, a year that is the calendar year of its date,
\* and that year lies in [2018, 2025], whatever the raw rows held.
C2_ReturnedRecordsAreComplete ==
    Loaded =>
        \A i \in 1..Len(df) :
            /\ ~isna(df[i].date)
            /\ ~isna(df[i].neighborhood)
            /\ ~isna(df[i].category)
            /\ df[i].year = df[i].date[1].year
            /\ \E raw \in Range(RawRows) :
                  /\ ~isna(raw.incident_date)
                  /\ df[i].year = raw.incident_date[1][1]
            /\ df[i].year \in 2018..2025

\* C2 witness: a non-empty collection was returned from raw rows that held a
\* missing date, an unparseable date, a missing neighborhood, a missing
\* category and years on both sides of the scope.
C2_Witness ==
    /\ pc = "loaded"
    /\ df # <<>>
    /\ \E raw \in Range(RawRows) : isna(raw.incident_date)
    /\ \E raw \in Range(RawRows) :
          ~isna(raw.incident_date) /\ ~ValidText(raw.incident_date[1])
    /\ \E raw \in Range(RawRows) : isna(raw.analysis_neighborhood)
    /\ \E raw \in Range(RawRows) : isna(raw.incident_category)
    /\ \E raw \in Range(RawRows) :
          ~isna(raw.incident_date) /\ raw.incident_date[1][1] < 2018
    /\ \E raw \in Range(RawRows) :
          ~isna(raw.incident_date) /\ raw.incident_date[1][1] > 2025

\* every predicate at its select-all value
SelectAll ==
    /\ year_range = <<min_year(df), max_year(df)>>
    /\ selected_nbhds = neighborhoods(df)
    /\ selected_categories = Range(categories(df))
    /\ selected_weekdays = Range(weekday_order)
    /\ hour_range = <<0, 23>>

\* C3: with every predicate at its select-all value the filtered subset is
\* the whole normalized collection, also when it holds records without hour.
C3_SelectAllKeepsAll ==
    (pc = "rendered" /\ SelectAll) => df_filt = df

\* C4: an empty selection in any one multiselect empties the filtered subset,
\* no aggregation is produced, and the three summary scalars are 0.
C4_EmptySelectionEmptiesView ==
    (pc = "rendered" /\ (selected_nbhds = {} \/ selected_categories = {}
                         \/ selected_weekdays = {})) =>
        /\ df_filt = <<>>
        /\ \A name \in DOMAIN panels : isna(panels[name])
        /\ metrics.total = 0
        /\ metrics.avg_num = 0
        /\ metrics.nbhds_in_view = 0

\* C4 witness: only the weekday selection is empty, the other predicates are
\* at select-all, and the collection has rows.
C4_Witness ==
    /\ pc = "rendered"
    /\ df # <<>>
    /\ selected_weekdays = {}
    /\ year_range = <<min_year(df), max_year(df)>>
    /\ selected_nbhds = neighborhoods(df)
    /\ selected_categories = Range(categories(df))
    /\ hour_range = <<0, 23>>
    /\ df_filt = <<>>

\* the sum of a count column, missing counts skipped
Total(counts) ==
    SumSeq([i \in 1..Len(counts) |-> IF isna(counts[i]) THEN 0 ELSE counts[i][1]])

\* C5: for a non-empty filtered subset, the per-weekday counts and the
\* per-hour counts both add up to the number of filtered records.
C5_MarginalsAddUp ==
    (pc = "rendered" /\ df_filt # <<>>) =>
        /\ Total(Column(panels.wk[1], "incidents")) = Len(df_filt)
        /\ SumSeq(Column(panels.hourly[1], "incidents")) = Len(df_filt)

\* C5 witness: a non-empty filtered subset of a collection that holds a
\* record without hour and a record without weekday, with a weekday of the
\* canonical order that does not occur in the subset.
C5_Witness ==
    /\ pc = "rendered"
    /\ df_filt # <<>>
    /\ \E i \in 1..Len(df) : isna(df[i].hour)
    /\ \E i \in 1..Len(df) : isna(df[i].weekday)
    /\ \E i \in 1..Len(panels.wk[1]) : isna(panels.wk[1][i].incidents)
    /\ Len(panels.hourly[1]) > 1

\* the calendar months of the dates of a collection
CalendarMonths(frame) ==
    {<<frame[i].date[1].year, frame[i].date[1].month>> : i \in 1..Len(frame)}

\* C6: for a non-empty filtered subset the monthly series has one entry per
\* month present, in strictly increasing order, and its counts add up to the
\* number of filtered records.
C6_MonthlySeries ==
    (pc = "rendered" /\ df_filt # <<>>) =>
        LET monthly == panels.monthly[1]
        IN /\ Len(monthly) = Cardinality(CalendarMonths(df_filt))
           /\ {<<monthly[i].month.year, monthly[i].month.month>> :
                  i \in 1..Len(monthly)} = CalendarMonths(df_filt)
           /\ \A i \in 1..(Len(monthly) - 1) :
                  \/ monthly[i].month.year < monthly[i + 1].month.year
                  \/ /\ monthly[i].month.year = monthly[i + 1].month.year
                     /\ monthly[i].month.month < monthly[i + 1].month.month
           /\ \A i \in 1..Len(monthly) :
                  monthly[i].incidents =
                      Cardinality({j \in 1..Len(df_filt) :
                          /\ df_filt[j].date[1].year = monthly[i].month.year
                          /\ df_filt[j].date[1].month = monthly[i].month.month})
           /\ SumSeq(Column(monthly, "incidents")) = Len(df_filt)

\* C6 witness: a filtered subset with several months, one of them holding
\* records of different days, and rows that arrived out of month order.
C6_Witness ==
    /\ pc = "rendered"
    /\ Len(panels.monthly) = 1
    /\ Len(panels.monthly[1]) > 2
    /\ \E i \in 1..Len(panels.monthly[1]) : panels.monthly[1][i].incidents > 1
    /\ \E i, j \in 1..Len(df_filt) :
          /\ df_filt[i].month = df_filt[j].month
          /\ df_filt[i].date # df_filt[j].date
    /\ \E i \in 1..(Len(df_filt) - 1) :
          Ordinal(df_filt[i].month) > Ordinal(df_filt[i + 1].month)

\* C7: the fetch loop terminates; its requests carry the offsets 0,
\* page_size, 2 * page_size, ...; no request follows one that failed or
\* returned nothing; at most 250000 / 50000 = 5 requests are issued; and with
\* pages of at most page_size rows the accumulated rows stay within
\* max_total_records.
C7_FetchLoopBounded ==
    /\ [](/\ requested = [i \in 1..Len(requested) |-> (i - 1) * 50000]
          /\ Len(requested) <= 5
          /\ Len(all_chunks) \in {Len(requested), Len(requested) - 1}
          /\ (Len(all_chunks) < Len(requested) => pc # "fetch")
          /\ ((\A i \in 1..Len(all_chunks) : Len(all_chunks[i]) <= 50000)
                 => Len(RawRows) <= 250000))
    /\ [][pc # "fetch" => requested' = requested]_vars
    /\ <>(pc # "fetch")

\* C7 witness: the loop ended after five full pages while the table held more.
C7_Witness ==
    /\ pc = "after_loop"
    /\ Len(requested) = 5
    /\ Len(all_chunks) = 5
    /\ Len(source) > 5
    /\ messages = {}

\* C8: when the first request fails or returns nothing, exactly one request
\* was issued, load_incidents returns the empty collection, and the script
\* halts before any filter, aggregation or forecast step.
C8_FirstRequestFailure ==
    (Len(requested) >= 1 /\ all_chunks = <<>>) =>
        /\ Len(requested) = 1
        /\ pc \in {"after_loop", "loaded", "stopped"}
        /\ (Loaded => df = <<>>)
        /\ df_filt = <<>>
        /\ metrics = NoMetrics
        /\ panels = NoPanels
        /\ forecast = NoForecast

\* C8 witness: the script stopped after a failed first request to a table
\* that holds rows.
C8_Witness ==
    /\ pc = "stopped"
    /\ source # <<>>
    /\ all_chunks = <<>>
    /\ messages \cap Errors # {}

\* C9: the forecasting call is made when the monthly series of the collection
\* has at least 24 points, and never when it has fewer.
C9_ForecastGuard ==
    /\ pc = "rendered" =>
          /\ Len(forecast.ts_city_full) = Cardinality(CalendarMonths(df))
          /\ forecast.fit_called <=> Len(forecast.ts_city_full) >= 24
    /\ pc # "rendered" => ~forecast.fit_called
    /\ forecast.fit # "none" => forecast.fit_called

\* C9 witness: the forecast was fitted on a series of exactly 24 months.
C9_Witness ==
    /\ pc = "rendered"
    /\ forecast.fit_called
    /\ forecast.fit = "ok"
    /\ Len(forecast.ts_city_full) = 24

\* the five predicates of the claim, on one record
SatisfiesAll(r) ==
    /\ year_range[1] <= r.year /\ r.year <= year_range[2]
    /\ \E n \in selected_nbhds : r.neighborhood = <<n>>
    /\ \E c \in selected_categories : r.category = <<c>>
    /\ \E w \in selected_weekdays : r.weekday = <<w>>
    /\ \E h \in hour_range[1]..hour_range[2] : r.hour = <<h>>

\* C10: the filtered subset holds exactly the records of the normalized
\* collection that satisfy all five predicates, range bounds inclusive, in
\* their order; it is a sub-collection of the normalized collection.
C10_FilterIsConjunction ==
    pc = "rendered" =>
        /\ df_filt = SelectSeq(df, SatisfiesAll)
        /\ \A i \in 1..Len(df_filt) : df_filt[i] \in Range(df)
        /\ Len(df_filt) <= Len(df)

\* C10 witness: a one-hour range and a one-year range keep some records and
\* exclude others, and each multiselect excludes a record of its own.
C10_Witness ==
    /\ pc = "rendered"
    /\ df_filt # <<>>
    /\ hour_range[1] = hour_range[2]
    /\ year_range[1] = year_range[2]
    /\ \E i \in 1..Len(df) : df[i].year # year_range[1]
    /\ \E i \in 1..Len(df) : ~isna(df[i].hour) /\ df[i].hour[1] # hour_range[1]
    /\ \E i \in 1..Len(df) : df[i].neighborhood[1] \notin selected_nbhds
    /\ \E i \in 1..Len(df) : df[i].category[1] \notin selected_categories
    /\ \E i \in 1..Len(df) :
          ~isna(df[i].weekday) /\ df[i].weekday[1] \notin selected_weekdays

\* the calendar days of the dates of a collection, as day numbers
CalendarDays(frame) == {DayNumber(frame[i].date[1]) : i \in 1..Len(frame)}

\* the days from the earliest to the latest date of a collection, both counted
DaysSpanned(frame) ==
    LET first == CHOOSE d \in CalendarDays(frame) : \A e \in CalendarDays(frame) : d <= e
        last  == CHOOSE d \in CalendarDays(frame) : \A e \in CalendarDays(frame) : d >= e
    IN last - first + 1

\* C11: the average per day is (number of filtered records) / max(span, 1)
\* with span = latest date - earliest date in days + 1; it is 0 for an empty
\* filtered subset; two records of a single day average 2.
C11_AveragePerDay ==
    pc = "rendered" =>
        /\ metrics.avg_den > 0
        /\ df_filt = <<>> => metrics.avg_num = 0
        /\ df_filt # <<>> =>
              metrics.avg_num * Max(DaysSpanned(df_filt), 1)
                  = Len(df_filt) * metrics.avg_den
        /\ (Len(df_filt) = 2 /\ df_filt[1].date = df_filt[2].date) =>
              metrics.avg_num = 2 * metrics.avg_den

\* C11 witness: two filtered records of one day, in a collection whose
\* records span more than a year.
C11_Witness ==
    /\ pc = "rendered"
    /\ Len(df_filt) = 2
    /\ df_filt[1].date = df_filt[2].date
    /\ DaysSpanned(df) > 365

\* how many records of a collection have value v in the column `name`
Occurrences(frame, name, v) ==
    Cardinality({i \in 1..Len(frame) : frame[i][name] = <<v>>})

\* the distinct values of the column `name` of a collection
Distinct(frame, name) == {frame[i][name][1] : i \in 1..Len(frame)}

\* a top list of the column `name` of df_filt, as the claim describes it
IsTopList(top, name) ==
    LET listed == {top[i].value : i \in 1..Len(top)}
        all    == Distinct(df_filt, name)
    IN /\ Len(top) = (IF Cardinality(all) < 10 THEN Cardinality(all) ELSE 10)
       /\ Cardinality(listed) = Len(top)
       /\ listed \subseteq all
       /\ \A i \in 1..Len(top) :
              top[i].incidents = Occurrences(df_filt, name, top[i].value)
       /\ \A i \in 1..(Len(top) - 1) : top[i].incidents >= top[i + 1].incidents
       /\ \A v \in all \ listed : \A w \in listed :
              Occurrences(df_filt, name, v) <= Occurrences(df_filt, name, w)

\* C12: for a non-empty filtered subset, the top-neighborhoods list and the
\* top-categories list each have min(10, number of distinct values) entries
\* with exact counts, in non-increasing order of count, and no value left out
\* has a strictly greater count than a listed one.
C12_TopLists ==
    (pc = "rendered" /\ df_filt # <<>>) =>
        /\ IsTopList(panels.top_nbh[1], "neighborhood")
        /\ IsTopList(panels.top_cat[1], "category")

\* C12 witness: eleven categories are present, so one is left out of the ten
\* listed; the counts differ and some are tied; the value seen first is not
\* the most frequent one.
C12_Witness ==
    /\ pc = "rendered"
    /\ df_filt # <<>>
    /\ Cardinality(Distinct(df_filt, "category")) = 11
    /\ Len(panels.top_cat[1]) = 10
    /\ panels.top_cat[1][1].incidents > panels.top_cat[1][10].incidents
    /\ panels.top_cat[1][9].incidents = panels.top_cat[1][10].incidents
    /\ panels.top_cat[1][1].value # df_filt[1].category[1]
    /\ Len(panels.top_nbh[1]) = 2
    /\ panels.top_nbh[1][1].incidents > panels.top_nbh[1][2].incidents

\* the series is the per-month record count of the collection `frame`
IsMonthlyCountOf(ts, frame) ==
    /\ {<<ts[i].month.year, ts[i].month.month>> : i \in 1..Len(ts)}
           = CalendarMonths(frame)
    /\ Len(ts) = Cardinality(CalendarMonths(frame))
    /\ \A i \in 1..Len(ts) :
           ts[i].incidents =
               Cardinality({j \in 1..Len(frame) :
                   /\ frame[j].date[1].year = ts[i].month.year
                   /\ frame[j].date[1].month = ts[i].month.month})

\* C13: the series given to the forecast is the monthly count of the whole
\* collection df, so it and the outcome of the 24-point guard are the same
\* for every choice of the five filter predicates; filtering and re-running
\* leave df unchanged.
C13_ForecastIgnoresFilters ==
    /\ [](pc = "rendered" =>
             /\ IsMonthlyCountOf(forecast.ts_city_full, df)
             /\ forecast.guard_passed <=> Cardinality(CalendarMonths(df)) >= 24)
    /\ [][(pc = "loaded" \/ pc = "rendered") => df' = df]_vars

\* C13 witness: the forecast was fitted although the filtered subset is
\* non-empty, smaller than df and has fewer than 24 months of its own.
C13_Witness ==
    /\ pc = "rendered"
    /\ df_filt # <<>>
    /\ Len(df_filt) < Len(df)
    /\ Cardinality(CalendarMonths(df_filt)) < 24
    /\ Cardinality(CalendarMonths(df)) >= 24
    /\ forecast.guard_passed
    /\ forecast.fit_called

====
